---------------------------- MODULE Spec2Model ----------------------------
(***************************************************************************)
(* Model of the provider-name pipeline of the lead-gen repository:         *)
(*   - normalize_org_name / calculate_similarity / match_to_dds_provider   *)
(*     (src/propublica.py)                                                 *)
(*   - _is_candidate_name / _infer_name_from_url /                         *)
(*     parse_providers_from_town_pdf (src/scraper.py)                      *)
(*   - _cached and the loaders of get_towns, get_providers_for_town and    *)
(*     get_all_providers_flat (src/scraper.py)                             *)
(*   - _rate_limit and the requests it precedes (src/propublica.py)        *)
(*   - _is_allowed_pdf, fetch_pdf (src/scraper.py) and the handlers that   *)
(*     fetch PDFs (src/main.py)                                            *)
(*                                                                         *)
(* A Python str is modelled as a sequence of one-character strings, so     *)
(* that the regular expressions and string methods of the source are       *)
(* computed character by character.  A Python float score is modelled as   *)
(* an exact fraction <<numerator, denominator>> with denominator > 0.      *)
(***************************************************************************)
EXTENDS Integers, Sequences, FiniteSets, TLC

VARIABLES
    \* normalize_org_name applied once and twice
    nName, nOnce, nTwice, nPc,
    \* match_to_dds_provider
    propublica_name, dds_providers, threshold, mIdx, best_score, best_match, mPc,
    \* parse_providers_from_town_pdf
    town_name, line, providers, seen_urls, last_name, nLines, branch,
    \* _cached: time.time(), _CACHE, the frames of the calls of each thread,
    \* the outcome of the last call of each thread, the calls made
    clock, CACHE, stack, result, calls,
    \* _rate_limit: time.time(), _last_request_time, where each thread is,
    \* its locals, and the times at which requests were issued
    rclock, last_request_time, rPc, rNow, rElapsed, rWake, issued,
    \* the handlers that fetch PDFs: the handler, where it is, the provider
    \* URL and where it came from, the quality URL, the exception
    \* scraper.fetch_pdf raised, the response status, the requests sent
    handler, hPc, fUrl, fOrigin, fQualityUrl, raised, status, http_log

normVars  == <<nName, nOnce, nTwice, nPc>>
matchVars == <<propublica_name, dds_providers, threshold, mIdx, best_score, best_match, mPc>>
parseVars == <<town_name, line, providers, seen_urls, last_name, nLines, branch>>
cacheVars == <<clock, CACHE, stack, result, calls>>
rateVars  == <<rclock, last_request_time, rPc, rNow, rElapsed, rWake, issued>>
fetchVars == <<handler, hPc, fUrl, fOrigin, fQualityUrl, raised, status, http_log>>
vars      == <<normVars, matchVars, parseVars, cacheVars, rateVars, fetchVars>>

(***************************************************************************)
(* Characters and the str methods the source uses                          *)
(***************************************************************************)
LowerSeq == <<"a","b","c","d","e","f","g","h","i","j","k","l","m",
              "n","o","p","q","r","s","t","u","v","w","x","y","z">>
UpperSeq == <<"A","B","C","D","E","F","G","H","I","J","K","L","M",
              "N","O","P","Q","R","S","T","U","V","W","X","Y","Z">>
Range(f) == {f[i] : i \in DOMAIN f}
LowerLetters == Range(LowerSeq)
UpperLetters == Range(UpperSeq)
Digits == {"0","1","2","3","4","5","6","7","8","9"}
WhitespaceChars == {" ", "\t", "\n", "\r"}

Letters == LowerLetters \cup UpperLetters
\* \w of a str pattern: alphanumeric or underscore
WordChars == Letters \cup Digits \cup {"_"}

IsAlpha(c) == c \in Letters
IsDigit(c) == c \in Digits
IsWordChar(c) == c \in WordChars
\* \s
IsSpace(c) == c \in WhitespaceChars

LetterIndex(seq, c) == CHOOSE i \in DOMAIN seq : seq[i] = c
LowerChar(c) == IF c \in UpperLetters THEN LowerSeq[LetterIndex(UpperSeq, c)] ELSE c
UpperChar(c) == IF c \in LowerLetters THEN UpperSeq[LetterIndex(LowerSeq, c)] ELSE c

\* str.lower() / str.upper()
Lower(s) == [i \in DOMAIN s |-> LowerChar(s[i])]
Upper(s) == [i \in DOMAIN s |-> UpperChar(s[i])]

\* s[i:j] with 1-based inclusive positions; empty when i > j
Slice(s, i, j) == IF i > j THEN <<>> ELSE SubSeq(s, i, j)

\* str.strip(): leading and trailing whitespace removed
RECURSIVE LStrip(_)
LStrip(s) == IF s # <<>> /\ IsSpace(Head(s)) THEN LStrip(Tail(s)) ELSE s
RECURSIVE RStrip(_)
RStrip(s) == IF s # <<>> /\ IsSpace(s[Len(s)]) THEN RStrip(Slice(s, 1, Len(s) - 1)) ELSE s
Strip(s) == RStrip(LStrip(s))

\* needle in hay (substring test); the empty string is in every string
IsSubstring(needle, hay) ==
    \E i \in 1..(Len(hay) + 1) :
        /\ i + Len(needle) - 1 <= Len(hay)
        /\ \A k \in 1..Len(needle) : hay[i + k - 1] = needle[k]

\* all strings over alphabet A of length at most n
Strings(A, n) == UNION {[1..k -> A] : k \in 0..n}

(***************************************************************************)
(* normalize_org_name                                                      *)
(***************************************************************************)
\* the suffix patterns, in the order of the source list; dot: the pattern
\* has an optional period (\.?) before the closing \b
Suffixes == <<
    [tok |-> <<"i","n","c">>, dot |-> TRUE],
    [tok |-> <<"i","n","c","o","r","p","o","r","a","t","e","d">>, dot |-> FALSE],
    [tok |-> <<"l","l","c">>, dot |-> FALSE],
    [tok |-> <<"c","o","r","p">>, dot |-> TRUE],
    [tok |-> <<"c","o","r","p","o","r","a","t","i","o","n">>, dot |-> FALSE],
    [tok |-> <<"l","t","d">>, dot |-> TRUE],
    [tok |-> <<"c","o">>, dot |-> TRUE],
    [tok |-> <<"f","o","u","n","d","a","t","i","o","n">>, dot |-> FALSE] >>

\* length of the match of \b tok \.? \b starting at position i of s, 0 when
\* the pattern does not match there.  \.? is greedy: the period is taken when
\* a word character follows it (the closing \b), else the match ends after
\* tok, at the end of s or before a non-word character.
SuffixMatchLen(s, suf, i) ==
    LET n == Len(suf.tok)
        startB == i = 1 \/ ~IsWordChar(s[i - 1])
        lit == i + n - 1 <= Len(s) /\ \A k \in 1..n : s[i + k - 1] = suf.tok[k]
        withDot == /\ suf.dot
                   /\ i + n + 1 <= Len(s)
                   /\ s[i + n] = "."
                   /\ IsWordChar(s[i + n + 1])
        noDot == i + n > Len(s) \/ ~IsWordChar(s[i + n])
    IN  IF startB /\ lit
        THEN IF withDot THEN n + 1 ELSE IF noDot THEN n ELSE 0
        ELSE 0

\* re.sub(suffix, '', name): leftmost non-overlapping matches removed, the
\* matches found on the string as it was before this substitution
RECURSIVE SubSuffixFrom(_, _, _)
SubSuffixFrom(s, suf, i) ==
    IF i > Len(s) THEN <<>>
    ELSE LET m == SuffixMatchLen(s, suf, i)
         IN  IF m > 0 THEN SubSuffixFrom(s, suf, i + m)
             ELSE <<s[i]>> \o SubSuffixFrom(s, suf, i + 1)
SubSuffix(s, suf) == SubSuffixFrom(s, suf, 1)

\* for suffix in suffixes: name = re.sub(suffix, '', name)
RECURSIVE RemoveSuffixes(_, _)
RemoveSuffixes(s, k) ==
    IF k > Len(Suffixes) THEN s
    ELSE RemoveSuffixes(SubSuffix(s, Suffixes[k]), k + 1)

\* re.sub(r'[^\w\s]', '', name)
KeepWordOrSpace(c) == IsWordChar(c) \/ IsSpace(c)
RemovePunctuation(s) == SelectSeq(s, KeepWordOrSpace)

\* re.sub(r'\s+', ' ', name)
RECURSIVE CollapseWhitespace(_)
CollapseWhitespace(s) ==
    IF s = <<>> THEN <<>>
    ELSE IF IsSpace(Head(s))
         THEN <<" ">> \o CollapseWhitespace(LStrip(s))
         ELSE <<Head(s)>> \o CollapseWhitespace(Tail(s))

normalize_org_name(name) ==
    Strip(CollapseWhitespace(RemovePunctuation(RemoveSuffixes(Lower(name), 1))))

(***************************************************************************)
(* Specification of the normalizer: an input name is drawn, normalized,    *)
(* and the result normalized again.                                        *)
(***************************************************************************)
NormMaxLen == 4
NormAlphabet == {"c", "o", "C", "x", ".", " ", "_"}
NormNames == Strings(NormAlphabet, NormMaxLen)
NoStr == <<"-none-">>

InitNorm ==
    /\ nName \in NormNames
    /\ nOnce = NoStr
    /\ nTwice = NoStr
    /\ nPc = "start"
IdleNorm ==
    /\ nName = <<>>
    /\ nOnce = NoStr
    /\ nTwice = NoStr
    /\ nPc = "idle"

NormalizeOnce ==
    /\ nPc = "start"
    /\ nOnce' = normalize_org_name(nName)
    /\ nPc' = "once"
    /\ UNCHANGED <<nName, nTwice>>
    /\ UNCHANGED <<matchVars, parseVars, cacheVars, rateVars, fetchVars>>

NormalizeTwice ==
    /\ nPc = "once"
    /\ nTwice' = normalize_org_name(nOnce)
    /\ nPc' = "twice"
    /\ UNCHANGED <<nName, nOnce>>
    /\ UNCHANGED <<matchVars, parseVars, cacheVars, rateVars, fetchVars>>


(***************************************************************************)
(* difflib.SequenceMatcher(None, a, b).ratio()                             *)
(*                                                                         *)
(* Positions are Python's: 0-based, ranges [lo, hi).  No junk function is  *)
(* given and the automatic junk heuristic only applies to sequences of     *)
(* 200 or more elements, far above the lengths explored here.              *)
(***************************************************************************)
\* length of the common run of a from i and b from j, inside [.., ahi) x [.., bhi)
RECURSIVE RunLen(_, _, _, _, _, _)
RunLen(a, b, i, j, ahi, bhi) ==
    IF i < ahi /\ j < bhi /\ a[i + 1] = b[j + 1]
    THEN 1 + RunLen(a, b, i + 1, j + 1, ahi, bhi)
    ELSE 0

SetMax(S) == CHOOSE x \in S : \A y \in S : y <= x
SetMin(S) == CHOOSE x \in S : \A y \in S : x <= y

\* <<i, j, k>>: the longest matching block in a[alo:ahi], b[blo:bhi]; of the
\* longest ones the one starting earliest in a, and of those the one
\* starting earliest in b; <<alo, blo, 0>> when nothing matches
find_longest_match(a, b, alo, ahi, blo, bhi) ==
    LET starts == (alo..(ahi - 1)) \X (blo..(bhi - 1))
        size(p) == RunLen(a, b, p[1], p[2], ahi, bhi)
        k == IF starts = {} THEN 0 ELSE SetMax({size(p) : p \in starts})
    IN  IF k = 0 THEN <<alo, blo, 0>>
        ELSE LET i == SetMin({p[1] : p \in {q \in starts : size(q) = k}})
                 j == SetMin({p[2] : p \in {q \in starts : q[1] = i /\ size(q) = k}})
             IN  <<i, j, k>>

\* sum of the sizes of get_matching_blocks(): the longest block, then the
\* same again to its left and to its right
RECURSIVE MatchCount(_, _, _, _, _, _)
MatchCount(a, b, alo, ahi, blo, bhi) ==
    LET m == find_longest_match(a, b, alo, ahi, blo, bhi)
        i == m[1]
        j == m[2]
        k == m[3]
    IN  IF k = 0 THEN 0
        ELSE k + (IF alo < i /\ blo < j THEN MatchCount(a, b, alo, i, blo, j) ELSE 0)
               + (IF i + k < ahi /\ j + k < bhi
                  THEN MatchCount(a, b, i + k, ahi, j + k, bhi) ELSE 0)

\* fractions: <<numerator, denominator>>, denominator > 0
FracLess(x, y) == x[1] * y[2] < y[1] * x[2]
FracLeq(x, y)  == x[1] * y[2] <= y[1] * x[2]
FracEq(x, y)   == x[1] * y[2] = y[1] * x[2]
FracMax(x, y)  == IF FracLess(x, y) THEN y ELSE x
Zero == <<0, 1>>
One  == <<1, 1>>

\* ratio(): 2.0 * matches / length if length else 1.0
Ratio(a, b) ==
    LET length == Len(a) + Len(b)
    IN  IF length = 0 THEN One
        ELSE <<2 * MatchCount(a, b, 0, Len(a), 0, Len(b)), length>>

(***************************************************************************)
(* calculate_similarity and match_to_dds_provider                          *)
(***************************************************************************)
\* variant of calculate_similarity: the ratio of the names as given
calculate_similarity_raw(name1, name2) == Ratio(name1, name2)

calculate_similarity(name1, name2) ==
    Ratio(normalize_org_name(name1), normalize_org_name(name2))

\* max(len(norm_propublica), 1)
Max1(n) == IF n > 1 THEN n ELSE 1

\* containment_score = len(norm_dds) / max(len(norm_propublica), 1)
ContainmentScore(norm_dds, norm_propublica) ==
    <<Len(norm_dds), Max1(Len(norm_propublica))>>

\* variant of Boost: 0.85 + (containment_score * 0.2)
BoostHigh(cs) == <<17 * cs[2] + 4 * cs[1], 20 * cs[2]>>

\* 0.75 + (containment_score * 0.2) = 3/4 + cs/5
Boost(cs) == <<15 * cs[2] + 4 * cs[1], 20 * cs[2]>>

\* norm_dds in norm_propublica or norm_propublica in norm_dds
Contained(norm_dds, norm_propublica) ==
    IsSubstring(norm_dds, norm_propublica) \/ IsSubstring(norm_propublica, norm_dds)

\* the score of one provider: the body of the loop up to the comparison
ProviderScore(target, provider_name) ==
    LET norm_propublica == normalize_org_name(target)
        norm_dds == normalize_org_name(provider_name)
        score == calculate_similarity(target, provider_name)
    IN  IF Contained(norm_dds, norm_propublica)
        THEN FracMax(score, Boost(ContainmentScore(norm_dds, norm_propublica)))
        ELSE score

\* variant of Improves: >= in place of >, the last of the tied providers wins
ImprovesOrTies(score, best) == FracLeq(best, score)

\* if score > best_score
Improves(score, best) == FracLess(best, score)

\* if best_score >= threshold
MeetsThreshold(best, thr) == FracLeq(thr, best)

(***************************************************************************)
(* Specification of the matcher.  best_match is the position in            *)
(* dds_providers of the provider object held, 0 for None.  The function    *)
(* reads only the "name" key of a provider.                                *)
(***************************************************************************)
MatchMaxLen == 2
MaxProviders == 2
MatchAlphabet == {"c", "o", "."}
MatchNames == Strings(MatchAlphabet, MatchMaxLen)
\* -0.1, 0.0, the default 0.6, 1.0
Thresholds == {<<-1, 10>>, <<0, 1>>, <<3, 5>>, <<1, 1>>}

InitMatch ==
    /\ propublica_name \in MatchNames
    /\ dds_providers \in UNION {[1..k -> [name : MatchNames]] : k \in 0..MaxProviders}
    /\ threshold \in Thresholds
    /\ mIdx = 0
    /\ best_score = Zero
    /\ best_match = 0
    /\ mPc = "loop"
IdleMatch ==
    /\ propublica_name = <<>>
    /\ dds_providers = <<>>
    /\ threshold = Zero
    /\ mIdx = 0
    /\ best_score = Zero
    /\ best_match = 0
    /\ mPc = "idle"

\* one iteration of: for provider in dds_providers
ScanProvider ==
    /\ mPc = "loop"
    /\ mIdx < Len(dds_providers)
    /\ LET score == ProviderScore(propublica_name, dds_providers[mIdx + 1].name)
       IN  IF Improves(score, best_score)
           THEN best_score' = score /\ best_match' = mIdx + 1
           ELSE UNCHANGED <<best_score, best_match>>
    /\ mIdx' = mIdx + 1
    /\ UNCHANGED <<propublica_name, dds_providers, threshold, mPc>>
    /\ UNCHANGED <<normVars, parseVars, cacheVars, rateVars, fetchVars>>

\* after the loop: best_score >= threshold and a provider is held
ReturnMatch ==
    /\ mPc = "loop"
    /\ mIdx = Len(dds_providers)
    /\ MeetsThreshold(best_score, threshold)
    /\ best_match # 0
    /\ mPc' = "returned"
    /\ UNCHANGED <<propublica_name, dds_providers, threshold, mIdx, best_score, best_match>>
    /\ UNCHANGED <<normVars, parseVars, cacheVars, rateVars, fetchVars>>

\* after the loop: best_score >= threshold with best_match None; the
\* logging call subscripts None and raises TypeError
RaiseTypeError ==
    /\ mPc = "loop"
    /\ mIdx = Len(dds_providers)
    /\ MeetsThreshold(best_score, threshold)
    /\ best_match = 0
    /\ mPc' = "raised"
    /\ UNCHANGED <<propublica_name, dds_providers, threshold, mIdx, best_score, best_match>>
    /\ UNCHANGED <<normVars, parseVars, cacheVars, rateVars, fetchVars>>

\* after the loop: best_score < threshold
ReturnNone ==
    /\ mPc = "loop"
    /\ mIdx = Len(dds_providers)
    /\ ~MeetsThreshold(best_score, threshold)
    /\ mPc' = "none"
    /\ UNCHANGED <<propublica_name, dds_providers, threshold, mIdx, best_score, best_match>>
    /\ UNCHANGED <<normVars, parseVars, cacheVars, rateVars, fetchVars>>

(***************************************************************************)
(* Roster parser: the helpers of src/scraper.py                            *)
(***************************************************************************)
\* pat occurs in s at position i (1-based); NoCase: pat is lower case and
\* the characters of s are compared case-insensitively
HasAt(s, pat, i) ==
    /\ i >= 1
    /\ i + Len(pat) - 1 <= Len(s)
    /\ \A k \in 1..Len(pat) : s[i + k - 1] = pat[k]
HasAtNoCase(s, pat, i) ==
    /\ i >= 1
    /\ i + Len(pat) - 1 <= Len(s)
    /\ \A k \in 1..Len(pat) : LowerChar(s[i + k - 1]) = pat[k]
Contains(s, pat) == \E i \in 1..Len(s) : HasAt(s, pat, i)

HttpScheme  == <<"h","t","t","p",":","/","/">>
HttpsScheme == <<"h","t","t","p","s",":","/","/">>
DotPdf      == <<".","p","d","f">>

\* URL_RE = https?://\S+?\.pdf, IGNORECASE.  The length of the scheme
\* matched at position i, 0 when there is none
SchemeLen(s, i) ==
    IF HasAtNoCase(s, HttpsScheme, i) THEN Len(HttpsScheme)
    ELSE IF HasAtNoCase(s, HttpScheme, i) THEN Len(HttpScheme)
    ELSE 0

\* the least n >= 1 such that the n characters from position q are not
\* spaces and are followed by ".pdf" (the lazy \S+? takes the least), tried
\* from n upwards; 0 when there is none
RECURSIVE UrlBodyLen(_, _, _)
UrlBodyLen(s, q, n) ==
    IF q + n - 1 > Len(s) \/ IsSpace(s[q + n - 1]) THEN 0
    ELSE IF HasAtNoCase(s, DotPdf, q + n) THEN n
    ELSE UrlBodyLen(s, q, n + 1)

\* the leftmost match starting at position i or later: <<start, end>>
\* (1-based, inclusive), <<0, 0>> for no match
RECURSIVE UrlSearchFrom(_, _)
UrlMatchAt(s, i, q, n) ==
    IF n > 0 THEN <<i, q + n + Len(DotPdf) - 1>> ELSE UrlSearchFrom(s, i + 1)
UrlSearchFrom(s, i) ==
    IF i > Len(s) THEN <<0, 0>>
    ELSE IF SchemeLen(s, i) = 0 THEN UrlSearchFrom(s, i + 1)
    ELSE UrlMatchAt(s, i, i + SchemeLen(s, i), UrlBodyLen(s, i + SchemeLen(s, i), 1))

\* URL_RE.search(line)
UrlSearch(s) == UrlSearchFrom(s, 1)

\* n digits at position i
DigitsAt(s, i, n) ==
    /\ i + n - 1 <= Len(s)
    /\ \A k \in i..(i + n - 1) : IsDigit(s[k])
SlashAt(s, i) == i <= Len(s) /\ s[i] = "/"

\* DATE_RE.search(line), DATE_RE = \b\d{1,2}/\d{1,2}/\d{2,4}\b
HasDate(s) ==
    \E i \in 1..Len(s), a \in 1..2, b \in 1..2, c \in 2..4 :
        /\ i = 1 \/ ~IsWordChar(s[i - 1])
        /\ DigitsAt(s, i, a)
        /\ SlashAt(s, i + a)
        /\ DigitsAt(s, i + a + 1, b)
        /\ SlashAt(s, i + a + b + 1)
        /\ DigitsAt(s, i + a + b + 2, c)
        /\ LET e == i + a + b + c + 2
           IN  e > Len(s) \/ ~IsWordChar(s[e])

\* str.isdigit()
IsDigitStr(s) == s # <<>> /\ \A i \in DOMAIN s : IsDigit(s[i])

HEADINGS == {
    <<"D","D","S"," ","Q","U","A","L","I","F","I","E","D"," ","P","R","O","V","I","D","E","R","S"," ","B","Y"," ","T","O","W","N">>,
    <<"P","R","O","V","I","D","E","R"," ","N","A","M","E">>,
    <<"L","I","N","K"," ","T","O"," ","P","R","O","V","I","D","E","R"," ","P","R","O","F","I","L","E">>,
    <<"D","D","S"," ","Q","U","A","L","I","F","I","E","D"," ","P","R","O","V","I","D","E","R","S">>,
    <<"Q","U","A","L","I","F","I","E","D"," ","P","R","O","V","I","D","E","R","S"," ","B","Y"," ","T","O","W","N">> }

\* variant of is_candidate_name: the test against HEADINGS and the test
\* against the town name are lost
is_candidate_name_no_headings(ln, town) ==
    /\ ln # <<>>
    /\ ~(Contains(ln, HttpScheme) \/ Contains(ln, HttpsScheme))
    /\ ~HasDate(ln)
    /\ ~IsDigitStr(ln)
    /\ ~(Len(ln) <= 2)

is_candidate_name(ln, town) ==
    LET upper == Upper(ln)
    IN  /\ ln # <<>>
        /\ ~(Contains(ln, HttpScheme) \/ Contains(ln, HttpsScheme))
        /\ upper \notin HEADINGS
        /\ ~HasDate(ln)
        /\ ~IsDigitStr(ln)
        /\ ~(town # <<>> /\ upper = Upper(town))
        /\ ~(Len(ln) <= 2)

\* url.split("/")[-1]
LastSegment(s) ==
    LET slashes == {i \in 1..Len(s) : s[i] = "/"}
    IN  IF slashes = {} THEN s ELSE Slice(s, SetMax(slashes) + 1, Len(s))

\* re.sub(r"\\.pdf$", "", name, flags=re.IGNORECASE): in a raw string the
\* pattern is a backslash, any character but a newline, then "pdf" at the
\* end: a name ending in ".pdf" without a backslash before the period is
\* left as it is
Pdf == <<"p","d","f">>
StripPdfPattern(name) ==
    LET n == Len(name)
    IN  IF /\ n >= 5
           /\ name[n - 4] = "\\"
           /\ name[n - 3] # "\n"
           /\ HasAtNoCase(name, Pdf, n - 2)
        THEN Slice(name, 1, n - 5)
        ELSE name

\* str.replace(old, new): non-overlapping occurrences, left to right
RECURSIVE ReplaceFrom(_, _, _, _)
ReplaceFrom(s, old, new, i) ==
    IF i > Len(s) THEN <<>>
    ELSE IF HasAt(s, old, i) THEN new \o ReplaceFrom(s, old, new, i + Len(old))
    ELSE <<s[i]>> \o ReplaceFrom(s, old, new, i + 1)
Replace(s, old, new) == ReplaceFrom(s, old, new, 1)

\* str.title(): a letter is upper-cased unless the character before it is
\* a letter, and then it is lower-cased
RECURSIVE TitleFrom(_, _, _)
TitleFrom(s, i, prevCased) ==
    IF i > Len(s) THEN <<>>
    ELSE LET c == s[i]
             d == IF ~IsAlpha(c) THEN c
                  ELSE IF prevCased THEN LowerChar(c) ELSE UpperChar(c)
         IN  <<d>> \o TitleFrom(s, i + 1, IsAlpha(c))
Title(s) == TitleFrom(s, 1, FALSE)

Provider == <<"p","r","o","v","i","d","e","r">>
infer_name_from_url(url) ==
    LET n1 == StripPdfPattern(LastSegment(url))
        n2 == Replace(Replace(n1, <<"_","p","p">>, <<>>), <<"-">>, <<" ">>)
        n3 == Replace(n2, <<"_">>, <<" ">>)
    IN  IF n3 # <<>> THEN Title(Strip(n3)) ELSE Provider

(***************************************************************************)
(* Specification of the roster parser.  The cleaned lines of the PDF are   *)
(* drawn one per iteration of the loop; branch records the branch of the   *)
(* loop body the last line took.  last_name = NoStr stands for None.       *)
(***************************************************************************)
MaxLines == 3

Towns == {<<"A","v","o","n">>, <<"A","c","m","e">>}

\* the text before the link (or the whole line when there is no link)
LinePrefixes == {
    <<>>,
    <<"A","c","m","e">>,
    <<"(","F","m",")">>,
    <<"1","2">>,
    <<"A","V","O","N">>,
    <<"P","R","O","V","I","D","E","R"," ","N","A","M","E">> }

\* the links: two ordinary profile links, and two whose file name ends in
\* a backslash, a character and "pdf"
LineUrls == {
    <<>>,
    <<"h","t","t","p",":","/","/","x","/","a",".","p","d","f">>,
    <<"h","t","t","p",":","/","/","x","/","b","_","p","p",".","p","d","f">>,
    <<"h","t","t","p",":","/","/","x","/","-","\\",".","p","d","f">>,
    <<"h","t","t","p",":","/","/","x","/","\\",".","p","d","f">> }

JoinLine(prefix, url) ==
    IF prefix = <<>> THEN url
    ELSE IF url = <<>> THEN prefix
    ELSE prefix \o <<" ">> \o url

\* _clean_line keeps only non-empty lines
LinePool == {JoinLine(p, u) : p \in LinePrefixes, u \in LineUrls} \ {<<>>}

InitParse ==
    /\ town_name \in Towns
    /\ line = NoStr
    /\ providers = <<>>
    /\ seen_urls = {}
    /\ last_name = NoStr
    /\ nLines = 0
    /\ branch = "start"
IdleParse ==
    /\ town_name = <<>>
    /\ line = NoStr
    /\ providers = <<>>
    /\ seen_urls = {}
    /\ last_name = NoStr
    /\ nLines = 0
    /\ branch = "idle"

\* "(" in line and line.strip().startswith("(") and providers
IsContinuation(ln, provs) ==
    /\ Contains(ln, <<"(">>)
    /\ HasAt(Strip(ln), <<"(">>, 1)
    /\ provs # <<>>

\* f"{providers[-1]['name']} {line}".strip()
ContinuedName(name, ln) == Strip(name \o <<" ">> \o ln)

\* variant of AlreadySeen: the test for a repeated link is lost
NeverSeen(url, seen) == FALSE

\* url in seen_urls
AlreadySeen(url, seen) == url \in seen

\* variant of ChosenName: last_name is preferred to the text before the link
ChosenNameLastFirst(name_part, last, town) ==
    IF last # NoStr /\ last # <<>> /\ is_candidate_name(last, town) THEN last
    ELSE IF is_candidate_name(name_part, town) THEN name_part
    ELSE NoStr

\* the name chosen for a link-bearing line: name_part if it is a candidate,
\* else last_name if it is set and a candidate, else None (NoStr)
ChosenName(name_part, last, town) ==
    IF is_candidate_name(name_part, town) THEN name_part
    ELSE IF last # NoStr /\ last # <<>> /\ is_candidate_name(last, town) THEN last
    ELSE NoStr

\* name or _infer_name_from_url(url)
RecordName(name, url) == IF name # NoStr THEN name ELSE infer_name_from_url(url)

\* providers.append({...}); last_name = name or last_name
EmitRecord(url, name) ==
    /\ seen_urls' = seen_urls \cup {url}
    /\ providers' = Append(providers, [name |-> RecordName(name, url), url |-> url])
    /\ last_name' = IF name # NoStr THEN name ELSE last_name
    /\ branch' = "emitted"

\* the branch "if match:", url = match.group(0) and
\* name_part = line[: match.start()].strip()
LinkLine(url, name_part) ==
    IF AlreadySeen(url, seen_urls)
    THEN /\ branch' = "duplicate"
         /\ UNCHANGED <<providers, seen_urls, last_name>>
    ELSE EmitRecord(url, ChosenName(name_part, last_name, town_name))

\* a line with no link: tracked as a potential name, or ignored
PlainLine(ln) ==
    IF is_candidate_name(ln, town_name)
    THEN /\ last_name' = ln
         /\ branch' = "candidate"
         /\ UNCHANGED <<providers, seen_urls>>
    ELSE /\ branch' = "ignored"
         /\ UNCHANGED <<providers, seen_urls, last_name>>

\* the loop body after the continuation test, m = URL_RE.search(line)
AfterSearch(ln, m) ==
    IF m # <<0, 0>>
    THEN LinkLine(Slice(ln, m[1], m[2]), Strip(Slice(ln, 1, m[1] - 1)))
    ELSE PlainLine(ln)

\* one iteration of: for line in lines
ParseLine(ln) ==
    /\ branch \notin {"idle", "returned"}
    /\ nLines < MaxLines
    /\ nLines' = nLines + 1
    /\ line' = ln
    /\ UNCHANGED town_name
    /\ UNCHANGED <<normVars, matchVars, cacheVars, rateVars, fetchVars>>
    /\ IF IsContinuation(ln, providers)
       THEN /\ providers' = [providers EXCEPT ![Len(providers)].name =
                                 ContinuedName(providers[Len(providers)].name, ln)]
            /\ branch' = "continuation"
            /\ UNCHANGED <<seen_urls, last_name>>
       ELSE AfterSearch(ln, UrlSearch(ln))

\* return providers
ParseReturn ==
    /\ branch \notin {"idle", "returned"}
    /\ branch' = "returned"
    /\ UNCHANGED <<town_name, line, providers, seen_urls, last_name, nLines>>
    /\ UNCHANGED <<normVars, matchVars, cacheVars, rateVars, fetchVars>>

(***************************************************************************)
(* scraper._cached.  Request handlers run in threads, so calls of          *)
(* different threads interleave between statements.  A call is a frame     *)
(* [key, now, pc, ...] on the stack of its thread; the loader of           *)
(* get_all_providers_flat calls get_towns and get_providers_for_town,      *)
(* whose calls of _cached are frames above it.  Time is counted in         *)
(* seconds and advances in steps of ClockStep.  The fields loaderCalls and *)
(* entry0 of a frame record history: how often the call invoked its        *)
(* loader, and the entry of its key when the call began.                    *)
(***************************************************************************)
MaxCalls == 2
MaxTicks == 2
ClockStep == 12 * 60 * 60

Threads == {"t1", "t2"}
TownsKey == "towns"
ProvidersKey == "providers::avon"
FlatKey == "all_providers_flat"
Keys == {TownsKey, ProvidersKey, FlatKey}
\* what a fetch can give
Values == {<<"v1">>, <<"v2">>}
NoValue == <<>>
NoKey == "-"

\* the ttl_seconds each caller passes
TTL(key) == IF key = TownsKey THEN 24 * 60 * 60 ELSE 6 * 60 * 60

\* the calls of _cached the loader of get_all_providers_flat makes, for a
\* roster of one town: get_towns(), then get_providers_for_town(town),
\* which calls get_towns() through get_town_pdf_url and then _cached
FlatCalls == <<TownsKey, TownsKey, ProvidersKey>>
IsLeaf(key) == key # FlatKey
\* the flat list built from the providers of the town
FlatValue(v) == <<"avon">> \o v

\* _CACHE.get(key): <<>> for None
EntryOf(c, key) == IF key \in DOMAIN c THEN <<c[key]>> ELSE <<>>
\* variant of Unexpired: an entry is served however old it is
NeverExpires(e, now) == e # <<>>

\* entry and entry.expires_at > now
Unexpired(e, now) == e # <<>> /\ e[1].expires_at > now
\* _CACHE[key] = CacheEntry(value=value, expires_at=now + ttl_seconds)
Put(c, key, value, now, ttl) ==
    [k \in DOMAIN c \cup {key} |->
        IF k = key THEN [value |-> value, expires_at |-> now + ttl] ELSE c[k]]

NoResult == [kind |-> "none", key |-> NoKey, value |-> NoValue]
\* the frame of a call that begins: now = time.time()
NewFrame(key) ==
    [key |-> key, now |-> clock, pc |-> "get", stage |-> 0, value |-> NoValue,
     loaderCalls |-> 0, entry0 |-> EntryOf(CACHE, key)]
Top(t) == stack[t][Len(stack[t])]
SetTop(s, f) == [s EXCEPT ![Len(s)] = f]
\* the caller of a returning call goes on with the value: the loader of
\* get_all_providers_flat moves to its next call
Resume(s, v) ==
    IF s = <<>> THEN s
    ELSE [s EXCEPT ![Len(s)].stage = @ + 1, ![Len(s)].value = v]
\* return v from the call on top of the stack of t
Return(t, v) ==
    /\ stack' = [stack EXCEPT ![t] = Resume(SubSeq(@, 1, Len(@) - 1), v)]
    /\ result' = [result EXCEPT ![t] = [kind |-> "value", key |-> Top(t).key, value |-> v]]

InitCache ==
    /\ clock = 0
    /\ CACHE = <<>>
    /\ stack = [t \in Threads |-> <<>>]
    /\ result = [t \in Threads |-> NoResult]
    /\ calls = 0
IdleCache ==
    /\ clock = 0
    /\ CACHE = <<>>
    /\ stack = <<>>
    /\ result = <<>>
    /\ calls = 0

\* a handler of thread t calls _cached(key, ttl, loader): now = time.time()
Call(t, key) ==
    /\ stack[t] = <<>>
    /\ calls < MaxCalls
    /\ calls' = calls + 1
    /\ stack' = [stack EXCEPT ![t] = <<NewFrame(key)>>]
    /\ result' = [result EXCEPT ![t] = NoResult]
    /\ UNCHANGED <<clock, CACHE>>
    /\ UNCHANGED <<normVars, matchVars, parseVars, rateVars, fetchVars>>

\* the same, in a run where a call begins only when no call is in progress
SeqCall(t, key) ==
    /\ \A u \in Threads : stack[u] = <<>>
    /\ Call(t, key)

\* entry = _CACHE.get(key); the entry is unexpired: return entry.value
Hit(t) ==
    /\ stack[t] # <<>>
    /\ Top(t).pc = "get"
    /\ Unexpired(EntryOf(CACHE, Top(t).key), Top(t).now)
    /\ Return(t, CACHE[Top(t).key].value)
    /\ UNCHANGED <<clock, CACHE, calls>>
    /\ UNCHANGED <<normVars, matchVars, parseVars, rateVars, fetchVars>>

\* entry = _CACHE.get(key); no unexpired entry: value = loader() is called
Miss(t) ==
    /\ stack[t] # <<>>
    /\ Top(t).pc = "get"
    /\ ~Unexpired(EntryOf(CACHE, Top(t).key), Top(t).now)
    /\ stack' = [stack EXCEPT ![t] =
                    SetTop(@, [Top(t) EXCEPT !.pc = "loader", !.loaderCalls = @ + 1])]
    /\ UNCHANGED <<clock, CACHE, result, calls>>
    /\ UNCHANGED <<normVars, matchVars, parseVars, rateVars, fetchVars>>

\* the loader of get_towns or get_providers_for_town returns what it fetched
LoaderFetches(t, v) ==
    /\ stack[t] # <<>>
    /\ Top(t).pc = "loader"
    /\ IsLeaf(Top(t).key)
    /\ stack' = [stack EXCEPT ![t] = SetTop(@, [Top(t) EXCEPT !.pc = "set", !.value = v])]
    /\ UNCHANGED <<clock, CACHE, result, calls>>
    /\ UNCHANGED <<normVars, matchVars, parseVars, rateVars, fetchVars>>

\* _http_get raises in the loader: the exception leaves this call of
\* _cached and, not being caught, every call below it
LoaderRaises(t) ==
    /\ stack[t] # <<>>
    /\ Top(t).pc = "loader"
    /\ IsLeaf(Top(t).key)
    /\ stack' = [stack EXCEPT ![t] = <<>>]
    /\ result' = [result EXCEPT ![t] =
                     [kind |-> "raised", key |-> stack[t][1].key, value |-> NoValue]]
    /\ UNCHANGED <<clock, CACHE, calls>>
    /\ UNCHANGED <<normVars, matchVars, parseVars, rateVars, fetchVars>>

\* the loader of get_all_providers_flat makes its next call of _cached
LoaderCalls(t) ==
    /\ stack[t] # <<>>
    /\ Top(t).pc = "loader"
    /\ Top(t).key = FlatKey
    /\ Top(t).stage < Len(FlatCalls)
    /\ stack' = [stack EXCEPT ![t] = Append(@, NewFrame(FlatCalls[Top(t).stage + 1]))]
    /\ UNCHANGED <<clock, CACHE, result, calls>>
    /\ UNCHANGED <<normVars, matchVars, parseVars, rateVars, fetchVars>>

\* the loader of get_all_providers_flat returns the list it built
LoaderBuilds(t) ==
    /\ stack[t] # <<>>
    /\ Top(t).pc = "loader"
    /\ Top(t).key = FlatKey
    /\ Top(t).stage = Len(FlatCalls)
    /\ stack' = [stack EXCEPT ![t] =
                    SetTop(@, [Top(t) EXCEPT !.pc = "set", !.value = FlatValue(@)])]
    /\ UNCHANGED <<clock, CACHE, result, calls>>
    /\ UNCHANGED <<normVars, matchVars, parseVars, rateVars, fetchVars>>

\* _CACHE[key] = CacheEntry(...); return value
Store(t) ==
    /\ stack[t] # <<>>
    /\ Top(t).pc = "set"
    /\ CACHE' = Put(CACHE, Top(t).key, Top(t).value, Top(t).now, TTL(Top(t).key))
    /\ Return(t, Top(t).value)
    /\ UNCHANGED <<clock, calls>>
    /\ UNCHANGED <<normVars, matchVars, parseVars, rateVars, fetchVars>>

\* time passes
Tick ==
    /\ clock < MaxTicks * ClockStep
    /\ clock' = clock + ClockStep
    /\ UNCHANGED <<CACHE, stack, result, calls>>
    /\ UNCHANGED <<normVars, matchVars, parseVars, rateVars, fetchVars>>

(***************************************************************************)
(* propublica._rate_limit and the request that follows it, in _http_get    *)
(* and fetch_form990_pdf.  Time is counted in tenths of a second.  The     *)
(* request is issued as _last_request_time is written; issued records the  *)
(* times of the requests, in the order they were issued.                   *)
(***************************************************************************)
MaxRequests == 3
MaxRateTicks == 6
\* RATE_LIMIT_DELAY = 0.5 seconds, in tenths of a second
RATE_LIMIT_DELAY == 5

InitRate ==
    /\ rclock = RATE_LIMIT_DELAY
    /\ last_request_time = 0
    /\ rPc = [t \in Threads |-> "idle"]
    /\ rNow = [t \in Threads |-> 0]
    /\ rElapsed = [t \in Threads |-> 0]
    /\ rWake = [t \in Threads |-> 0]
    /\ issued = <<>>
IdleRate ==
    /\ rclock = 0
    /\ last_request_time = 0
    /\ rPc = <<>>
    /\ rNow = <<>>
    /\ rElapsed = <<>>
    /\ rWake = <<>>
    /\ issued = <<>>

\* the calls of _rate_limit begun
Begun == Len(issued) + Cardinality({t \in Threads : rPc[t] # "idle"})

\* variant of MustSleep: the test of the elapsed time is lost
NeverSleeps(elapsed) == FALSE

\* if elapsed < RATE_LIMIT_DELAY
MustSleep(elapsed) == elapsed < RATE_LIMIT_DELAY

\* a handler of thread t calls _rate_limit(): now = time.time()
RateLimit(t) ==
    /\ rPc[t] = "idle"
    /\ Begun < MaxRequests
    /\ rNow' = [rNow EXCEPT ![t] = rclock]
    /\ rPc' = [rPc EXCEPT ![t] = "elapsed"]
    /\ UNCHANGED <<rclock, last_request_time, rElapsed, rWake, issued>>
    /\ UNCHANGED <<normVars, matchVars, parseVars, cacheVars, fetchVars>>

\* the same, in a run where a call begins only when no call is in progress
SeqRateLimit(t) ==
    /\ \A u \in Threads : rPc[u] = "idle"
    /\ RateLimit(t)

\* elapsed = now - _last_request_time
ReadLast(t) ==
    /\ rPc[t] = "elapsed"
    /\ rElapsed' = [rElapsed EXCEPT ![t] = rNow[t] - last_request_time]
    /\ rPc' = [rPc EXCEPT ![t] = "test"]
    /\ UNCHANGED <<rclock, last_request_time, rNow, rWake, issued>>
    /\ UNCHANGED <<normVars, matchVars, parseVars, cacheVars, fetchVars>>

\* elapsed < RATE_LIMIT_DELAY: time.sleep(RATE_LIMIT_DELAY - elapsed) begins
Sleep(t) ==
    /\ rPc[t] = "test"
    /\ MustSleep(rElapsed[t])
    /\ rWake' = [rWake EXCEPT ![t] = rclock + (RATE_LIMIT_DELAY - rElapsed[t])]
    /\ rPc' = [rPc EXCEPT ![t] = "sleeping"]
    /\ UNCHANGED <<rclock, last_request_time, rNow, rElapsed, issued>>
    /\ UNCHANGED <<normVars, matchVars, parseVars, cacheVars, fetchVars>>

\* elapsed >= RATE_LIMIT_DELAY: no sleep
NoSleep(t) ==
    /\ rPc[t] = "test"
    /\ ~MustSleep(rElapsed[t])
    /\ rPc' = [rPc EXCEPT ![t] = "stamp"]
    /\ UNCHANGED <<rclock, last_request_time, rNow, rElapsed, rWake, issued>>
    /\ UNCHANGED <<normVars, matchVars, parseVars, cacheVars, fetchVars>>

\* time.sleep returns, not before the time asked for has passed
Wake(t) ==
    /\ rPc[t] = "sleeping"
    /\ rclock >= rWake[t]
    /\ rPc' = [rPc EXCEPT ![t] = "stamp"]
    /\ UNCHANGED <<rclock, last_request_time, rNow, rElapsed, rWake, issued>>
    /\ UNCHANGED <<normVars, matchVars, parseVars, cacheVars, fetchVars>>

\* _last_request_time = time.time(); _rate_limit returns and the request
\* is issued
IssueRequest(t) ==
    /\ rPc[t] = "stamp"
    /\ last_request_time' = rclock
    /\ issued' = Append(issued, rclock)
    /\ rPc' = [rPc EXCEPT ![t] = "idle"]
    /\ UNCHANGED <<rclock, rNow, rElapsed, rWake>>
    /\ UNCHANGED <<normVars, matchVars, parseVars, cacheVars, fetchVars>>

\* time passes
RateTick ==
    /\ rclock < RATE_LIMIT_DELAY + MaxRateTicks
    /\ rclock' = rclock + 1
    /\ UNCHANGED <<last_request_time, rPc, rNow, rElapsed, rWake, issued>>
    /\ UNCHANGED <<normVars, matchVars, parseVars, cacheVars, fetchVars>>

(***************************************************************************)
(* scraper._is_allowed_pdf and scraper.fetch_pdf, with                     *)
(* urllib.parse.urlparse computed character by character, and the three    *)
(* handlers of src/main.py that fetch PDFs.  http_log records every HTTP   *)
(* request for a PDF a handler causes: its URL, the function that sent it  *)
(* and where the URL came from.                                            *)
(***************************************************************************)
\* urlsplit: leading spaces and control characters are stripped
UrlStripped(s) == LStrip(s)
\* the characters a scheme is made of
SchemeChars == Letters \cup Digits \cup {"+", "-", "."}
FirstIndex(s, chars) ==
    LET found == {i \in 1..Len(s) : s[i] \in chars}
    IN  IF found = {} THEN 0 ELSE SetMin(found)
\* urlsplit: the text before the first ":" is the scheme if it begins with
\* a letter and is made of scheme characters
HasScheme(s) ==
    LET i == FirstIndex(s, {":"})
    IN  /\ i > 1
        /\ IsAlpha(s[1])
        /\ \A k \in 1..(i - 1) : s[k] \in SchemeChars
\* urlparse(url).scheme, in lower case
UrlScheme(s) ==
    IF HasScheme(UrlStripped(s))
    THEN Lower(Slice(UrlStripped(s), 1, FirstIndex(UrlStripped(s), {":"}) - 1))
    ELSE <<>>
AfterScheme(s) ==
    IF HasScheme(UrlStripped(s))
    THEN Slice(UrlStripped(s), FirstIndex(UrlStripped(s), {":"}) + 1, Len(UrlStripped(s)))
    ELSE UrlStripped(s)
\* _splitnetloc: after "//", up to the first of "/", "?" and "#"
NetlocOf(rest) ==
    IF ~HasAt(rest, <<"/","/">>, 1) THEN <<>>
    ELSE LET tail == Slice(rest, 3, Len(rest))
             d == FirstIndex(tail, {"/", "?", "#"})
         IN  IF d = 0 THEN tail ELSE Slice(tail, 1, d - 1)
\* urlparse(url).netloc
UrlNetloc(s) == NetlocOf(AfterScheme(s))
\* urlsplit raises ValueError("Invalid IPv6 URL") on an unmatched bracket
UrlParseRaises(s) ==
    (Contains(UrlNetloc(s), <<"[">>) /\ ~Contains(UrlNetloc(s), <<"]">>))
        \/ (Contains(UrlNetloc(s), <<"]">>) /\ ~Contains(UrlNetloc(s), <<"[">>))

AllowedSchemes == {<<"h","t","t","p">>, <<"h","t","t","p","s">>}
allowed_hosts == {
    <<"p","o","r","t","a","l",".","c","t",".","g","o","v">>,
    <<"w","w","w",".","c","t",".","g","o","v">>,
    <<"c","t",".","g","o","v">> }
AllowedMarkers == {
    <<"/","p","r","o","v","i","d","e","r","_","t","o","w","n","/">>,
    <<"/","p","r","o","v","i","d","e","r","_","a","l","p","h","a","/">>,
    <<"/","q","s","r","/">>,
    <<"/","d","d","s","/">>,
    <<"q","u","a","l","i","t","y">> }

\* _is_allowed_pdf(url), for a url that urlparse accepts
is_allowed_pdf(s) ==
    /\ s # <<>>
    /\ UrlScheme(s) \in AllowedSchemes
    /\ Lower(UrlNetloc(s)) \in allowed_hosts
    /\ \E m \in AllowedMarkers : Contains(Lower(s), m)

\* variant of Blocked: fetch_pdf fetches whatever it is given
NeverBlocked(s) == FALSE

\* fetch_pdf: if not _is_allowed_pdf(url): raise ValueError (the
\* ValueError of urlparse leaves fetch_pdf the same way)
Blocked(s) == UrlParseRaises(s) \/ ~is_allowed_pdf(s)

\* the URLs a caller or a PDF can supply
UrlDds == <<"h","t","t","p","s",":","/","/","c","t",".","g","o","v","/","d","d","s","/","a",".","p","d","f">>
UrlQsrUpper == <<"H","T","T","P",":","/","/","W","W","W",".","C","T",".","G","O","V","/","Q","S","R","/","a",".","p","d","f">>
UrlQuality == <<"h","t","t","p","s",":","/","/","p","o","r","t","a","l",".","c","t",".","g","o","v","/","q","u","a","l","i","t","y",".","p","d","f">>
UrlNoMarker == <<"h","t","t","p","s",":","/","/","p","o","r","t","a","l",".","c","t",".","g","o","v","/","a",".","p","d","f">>
UrlFtp == <<"f","t","p",":","/","/","c","t",".","g","o","v","/","q","s","r","/","a",".","p","d","f">>
UrlEvil == <<"h","t","t","p","s",":","/","/","e","v","i","l",".","c","o","m","/","d","d","s","/","a",".","p","d","f">>
UrlUserinfo == <<"h","t","t","p","s",":","/","/","c","t",".","g","o","v","@","e","v","i","l",".","c","o","m","/","q","s","r","/","a",".","p","d","f">>
UrlSuffix == <<"h","t","t","p","s",":","/","/","c","t",".","g","o","v",".","e","v","i","l",".","c","o","m","/","q","u","a","l","i","t","y",".","p","d","f">>
UrlQuery == <<"h","t","t","p","s",":","/","/","c","t",".","g","o","v","?","x","=","/","d","d","s","/">>
UrlSpace == <<" ","h","t","t","p","s",":","/","/","c","t",".","g","o","v","/","d","d","s","/","a",".","p","d","f">>
UrlBracket == <<"h","t","t","p","s",":","/","/","[","c","t",".","g","o","v","/","q","s","r","/","a",".","p","d","f">>
UrlNoScheme == <<"/","/","c","t",".","g","o","v","/","d","d","s","/","a",".","p","d","f">>
UrlNoNetloc == <<"h","t","t","p","s",":","/","c","t",".","g","o","v","/","d","d","s","/","a",".","p","d","f">>
UrlPool == {UrlDds, UrlQsrUpper, UrlQuality, UrlNoMarker, UrlFtp, UrlEvil, UrlUserinfo,
            UrlSuffix, UrlQuery, UrlSpace, UrlBracket, UrlNoScheme, UrlNoNetloc}
\* a link of a town roster is a match of URL_RE
RosterUrls == {u \in UrlPool : UrlSearch(u) = <<1, Len(u)>>}
\* extract_quality_profile_url returns a match of QUALITY_PROFILE_RE or a
\* hyperlink whose uri holds "qsr" or "quality"
QualityUrls ==
    {u \in UrlPool : Contains(Lower(u), <<"q","s","r">>)
                        \/ Contains(Lower(u), <<"q","u","a","l","i","t","y">>)}
\* the URLs that do not come from a caller or a PDF
Form990Url == <<"p","r","o","p","u","b","l","i","c","a">>
TownPdfUrl == <<"t","o","w","n">>

Handlers == {"fetch_pdf", "fetch_provider_with_quality", "fetch_all_docs"}
Request(u, via, origin) == [url |-> u, via |-> via, origin |-> origin]

InitFetch ==
    /\ handler \in Handlers
    /\ hPc = "start"
    \* url is a required parameter of the two GET handlers; provider_url of
    \* fetch_all_docs is optional
    /\ fUrl \in UrlPool \cup (IF handler = "fetch_all_docs" THEN {<<>>} ELSE {})
    /\ fOrigin = "caller"
    /\ fQualityUrl = <<>>
    /\ raised = "none"
    /\ status = 0
    /\ http_log = <<>>
IdleFetch ==
    /\ handler = "idle"
    /\ hPc = "idle"
    /\ fUrl = <<>>
    /\ fOrigin = "none"
    /\ fQualityUrl = <<>>
    /\ raised = "none"
    /\ status = 0
    /\ http_log = <<>>

\* the two GET handlers call scraper.fetch_pdf(url) first
StartGet ==
    /\ handler \in {"fetch_pdf", "fetch_provider_with_quality"}
    /\ hPc = "start"
    /\ hPc' = "check"
    /\ UNCHANGED <<handler, fUrl, fOrigin, fQualityUrl, raised, status, http_log>>
    /\ UNCHANGED <<normVars, matchVars, parseVars, cacheVars, rateVars>>

\* fetch_all_docs, step 1: propublica.fetch_form990_pdf requests the PDF
\* of the filing unless it is cached or there is none; errors are recorded
Form990(requested) ==
    /\ handler = "fetch_all_docs"
    /\ hPc = "start"
    /\ hPc' = "find"
    /\ http_log' = IF requested
                   THEN Append(http_log, Request(Form990Url, "propublica.fetch_form990_pdf", "api"))
                   ELSE http_log
    /\ UNCHANGED <<handler, fUrl, fOrigin, fQualityUrl, raised, status>>
    /\ UNCHANGED <<normVars, matchVars, parseVars, cacheVars, rateVars>>

\* fetch_all_docs, step 2: the caller gave a provider_url
ProviderGiven ==
    /\ handler = "fetch_all_docs"
    /\ hPc = "find"
    /\ fUrl # <<>>
    /\ hPc' = "check"
    /\ UNCHANGED <<handler, fUrl, fOrigin, fQualityUrl, raised, status, http_log>>
    /\ UNCHANGED <<normVars, matchVars, parseVars, cacheVars, rateVars>>

\* fetch_all_docs, step 2: no provider_url; get_providers_for_town fetches
\* the town roster (unless cached) and the url of the matched record is
\* taken
ProviderMatched(u, requested) ==
    /\ handler = "fetch_all_docs"
    /\ hPc = "find"
    /\ fUrl = <<>>
    /\ fUrl' = u
    /\ fOrigin' = "pdf"
    /\ hPc' = "check"
    /\ http_log' = IF requested
                   THEN Append(http_log, Request(TownPdfUrl, "scraper.get_providers_for_town", "html"))
                   ELSE http_log
    /\ UNCHANGED <<handler, fQualityUrl, raised, status>>
    /\ UNCHANGED <<normVars, matchVars, parseVars, cacheVars, rateVars>>

\* fetch_all_docs, step 2: no provider_url and no match (or no city, or the
\* search failed): steps 3 and 4 are skipped
ProviderNotFound(requested) ==
    /\ handler = "fetch_all_docs"
    /\ hPc = "find"
    /\ fUrl = <<>>
    /\ hPc' = "done"
    /\ status' = 200
    /\ http_log' = IF requested
                   THEN Append(http_log, Request(TownPdfUrl, "scraper.get_providers_for_town", "html"))
                   ELSE http_log
    /\ UNCHANGED <<handler, fUrl, fOrigin, fQualityUrl, raised>>
    /\ UNCHANGED <<normVars, matchVars, parseVars, cacheVars, rateVars>>

\* scraper.fetch_pdf(url) raises ValueError: 400 from the GET handlers, an
\* error in the response of fetch_all_docs
BlockProvider ==
    /\ hPc = "check"
    /\ Blocked(fUrl)
    /\ raised' = "ValueError"
    /\ status' = IF handler = "fetch_all_docs" THEN 200 ELSE 400
    /\ hPc' = "done"
    /\ UNCHANGED <<handler, fUrl, fOrigin, fQualityUrl, http_log>>
    /\ UNCHANGED <<normVars, matchVars, parseVars, cacheVars, rateVars>>

\* scraper.fetch_pdf(url) goes on to _http_get(url)
PassProvider ==
    /\ hPc = "check"
    /\ ~Blocked(fUrl)
    /\ hPc' = "get"
    /\ UNCHANGED <<handler, fUrl, fOrigin, fQualityUrl, raised, status, http_log>>
    /\ UNCHANGED <<normVars, matchVars, parseVars, cacheVars, rateVars>>

\* _http_get(url) sends the request; ok: it returns the bytes, otherwise
\* it raises RequestException: 502 from the GET handlers, an error in the
\* response of fetch_all_docs
GetProvider(ok) ==
    /\ hPc = "get"
    /\ http_log' = Append(http_log, Request(fUrl, "scraper.fetch_pdf", fOrigin))
    /\ IF ok
       THEN /\ raised' = raised
            /\ IF handler = "fetch_pdf"
               THEN hPc' = "done" /\ status' = 200
               ELSE hPc' = "extract" /\ status' = status
       ELSE /\ raised' = "RequestException"
            /\ hPc' = "done"
            /\ status' = IF handler = "fetch_all_docs" THEN 200 ELSE 502
    /\ UNCHANGED <<handler, fUrl, fOrigin, fQualityUrl>>
    /\ UNCHANGED <<normVars, matchVars, parseVars, cacheVars, rateVars>>

\* extract_quality_profile_url finds a URL in the provider PDF
ExtractQuality(u) ==
    /\ hPc = "extract"
    /\ fQualityUrl' = u
    /\ hPc' = "quality"
    /\ UNCHANGED <<handler, fUrl, fOrigin, raised, status, http_log>>
    /\ UNCHANGED <<normVars, matchVars, parseVars, cacheVars, rateVars>>

\* extract_quality_profile_url returns None
NoQuality ==
    /\ hPc = "extract"
    /\ hPc' = "done"
    /\ status' = 200
    /\ UNCHANGED <<handler, fUrl, fOrigin, fQualityUrl, raised, http_log>>
    /\ UNCHANGED <<normVars, matchVars, parseVars, cacheVars, rateVars>>

\* if scraper._is_allowed_pdf(quality_url): scraper.fetch_pdf(quality_url),
\* which tests the URL again before _http_get; else an error is recorded.
\* Every exception is caught and recorded.
FetchQuality ==
    /\ hPc = "quality"
    /\ hPc' = "done"
    /\ status' = 200
    /\ IF UrlParseRaises(fQualityUrl) \/ ~is_allowed_pdf(fQualityUrl)
       THEN UNCHANGED <<raised, http_log>>
       ELSE IF Blocked(fQualityUrl)
       THEN raised' = "ValueError" /\ UNCHANGED http_log
       ELSE /\ http_log' = Append(http_log, Request(fQualityUrl, "scraper.fetch_pdf", "pdf"))
            /\ raised' \in {raised, "RequestException"}
    /\ UNCHANGED <<handler, fUrl, fOrigin, fQualityUrl>>
    /\ UNCHANGED <<normVars, matchVars, parseVars, cacheVars, rateVars>>

(***************************************************************************)
(* The specifications                                                      *)
(***************************************************************************)
InitNormalize == InitNorm /\ IdleMatch /\ IdleParse /\ IdleCache /\ IdleRate /\ IdleFetch
NextNorm == NormalizeOnce \/ NormalizeTwice
SpecNormalize == InitNormalize /\ [][NextNorm]_vars

InitMatcher == IdleNorm /\ InitMatch /\ IdleParse /\ IdleCache /\ IdleRate /\ IdleFetch
NextMatch == ScanProvider \/ ReturnMatch \/ RaiseTypeError \/ ReturnNone
SpecMatch == InitMatcher /\ [][NextMatch]_vars

InitParser == IdleNorm /\ IdleMatch /\ InitParse /\ IdleCache /\ IdleRate /\ IdleFetch
NextParse == (\E ln \in LinePool : ParseLine(ln)) \/ ParseReturn
SpecParse == InitParser /\ [][NextParse]_vars

\* _cached called from concurrent handler threads
InitCached == IdleNorm /\ IdleMatch /\ IdleParse /\ InitCache /\ IdleRate /\ IdleFetch
CachedStep(t) ==
    \/ Hit(t)
    \/ Miss(t)
    \/ (\E v \in Values : LoaderFetches(t, v))
    \/ LoaderRaises(t)
    \/ LoaderCalls(t)
    \/ LoaderBuilds(t)
    \/ Store(t)
NextCached ==
    \/ (\E t \in Threads : (\E key \in Keys : Call(t, key)) \/ CachedStep(t))
    \/ Tick
SpecCached == InitCached /\ [][NextCached]_vars

\* _cached called in a sequential run: one call at a time
NextCachedSeq ==
    \/ (\E t \in Threads : (\E key \in Keys : SeqCall(t, key)) \/ CachedStep(t))
    \/ Tick
SpecCachedSeq == InitCached /\ [][NextCachedSeq]_vars

\* _rate_limit called from concurrent handler threads
InitRateLimit == IdleNorm /\ IdleMatch /\ IdleParse /\ IdleCache /\ InitRate /\ IdleFetch
RateStep(t) == ReadLast(t) \/ Sleep(t) \/ NoSleep(t) \/ Wake(t) \/ IssueRequest(t)
NextRate == (\E t \in Threads : RateLimit(t) \/ RateStep(t)) \/ RateTick
SpecRate == InitRateLimit /\ [][NextRate]_vars

\* one request to a handler that fetches PDFs
InitFetcher == IdleNorm /\ IdleMatch /\ IdleParse /\ IdleCache /\ IdleRate /\ InitFetch
NextFetch ==
    \/ StartGet
    \/ (\E requested \in BOOLEAN : Form990(requested))
    \/ ProviderGiven
    \/ (\E u \in RosterUrls, requested \in BOOLEAN : ProviderMatched(u, requested))
    \/ (\E requested \in BOOLEAN : ProviderNotFound(requested))
    \/ BlockProvider
    \/ PassProvider
    \/ (\E ok \in BOOLEAN : GetProvider(ok))
    \/ (\E u \in QualityUrls : ExtractQuality(u))
    \/ NoQuality
    \/ FetchQuality
SpecFetch == InitFetcher /\ [][NextFetch]_vars

\* _rate_limit called in a sequential run: one call at a time
NextRateSeq == (\E t \in Threads : SeqRateLimit(t) \/ RateStep(t)) \/ RateTick
SpecRateSeq == InitRateLimit /\ [][NextRateSeq]_vars

(***************************************************************************)
(* Properties of the normalizer                                            *)
(***************************************************************************)
\* C1: normalize is idempotent: normalizing the normalized name gives the
\* normalized name again, for every input.
C1_NormalizeIdempotent == nPc = "twice" => nTwice = nOnce

(***************************************************************************)
(* Properties of the matcher                                               *)
(***************************************************************************)
ScoreOf(i) == ProviderScore(propublica_name, dds_providers[i].name)
Finished == mPc \in {"returned", "none", "raised"}
\* a provider of the highest score
TopProvider == CHOOSE i \in 1..Len(dds_providers) :
                   \A j \in 1..Len(dds_providers) : FracLeq(ScoreOf(j), ScoreOf(i))

\* C2: the score computed for every (target, candidate) pair, containment
\* boost included, lies in [0, 1].
C2_ScoreInUnitInterval ==
    \A i \in 1..mIdx : FracLeq(Zero, ScoreOf(i)) /\ FracLeq(ScoreOf(i), One)

\* C3: a candidate whose name and the target both normalize to the empty
\* string, with different raw names, is never returned.
C3_EmptyPairNeverReturned ==
    mPc = "returned" =>
        ~ /\ normalize_org_name(propublica_name) = <<>>
          /\ normalize_org_name(dds_providers[best_match].name) = <<>>
          /\ dds_providers[best_match].name # propublica_name

\* C4: with an empty candidate list the call returns none, for every target
\* and every threshold.
C4_EmptyListReturnsNone ==
    (Finished /\ dds_providers = <<>>) => mPc = "none"

\* C5: the call never raises: it ends by returning a candidate or none.
C5_NeverRaises == mPc # "raised"

\* C6: the call returns a best-scoring candidate if and only if the best
\* score is >= threshold.
C6_ReturnsIffAtThreshold ==
    (Finished /\ dds_providers # <<>>) =>
        ((mPc = "returned" /\ best_match # 0 /\ FracEq(ScoreOf(best_match), ScoreOf(TopProvider)))
            <=> MeetsThreshold(ScoreOf(TopProvider), threshold))

\* C7: a returned candidate is an element of the list, its score is the
\* maximum over all candidates, and every candidate before it in the list
\* scores strictly less (the earliest of the tied candidates is returned).
C7_ReturnsEarliestMaximum ==
    mPc = "returned" =>
        /\ best_match \in 1..Len(dds_providers)
        /\ FracEq(best_score, ScoreOf(best_match))
        /\ \A j \in 1..Len(dds_providers) : FracLeq(ScoreOf(j), ScoreOf(best_match))
        /\ \A j \in 1..(best_match - 1) : FracLess(ScoreOf(j), ScoreOf(best_match))
\* a candidate is returned while a later candidate of another name ties it
C7_Witness ==
    /\ mPc = "returned"
    /\ \E j \in (best_match + 1)..Len(dds_providers) :
          /\ FracEq(ScoreOf(j), ScoreOf(best_match))
          /\ dds_providers[j].name # dds_providers[best_match].name

(***************************************************************************)
(* Properties of the roster parser                                         *)
(***************************************************************************)
\* a step of the loop: one more line has been consumed
LineStep == nLines' = nLines + 1
\* the first PDF link of a line, <<>> when it has none
SpanText(ln, m) == IF m = <<0, 0>> THEN <<>> ELSE Slice(ln, m[1], m[2])
FirstUrl(ln) == SpanText(ln, UrlSearch(ln))
HasUrl(ln) == UrlSearch(ln) # <<0, 0>>
StartsWithParen(ln) == HasAt(ln, <<"(">>, 1)
RecordUrls(provs) == {provs[i].url : i \in 1..Len(provs)}
LinksDistinct ==
    \A i, j \in 1..Len(providers) : providers[i].url = providers[j].url => i = j

\* C8: every emitted record has a non-empty link and a non-empty name.
C8_RecordsNonEmpty ==
    \A i \in 1..Len(providers) : providers[i].url # <<>> /\ providers[i].name # <<>>

\* what C9 says of a line of first link url: if the link was already
\* emitted the records and last_name are left as they are
DuplicateChangesNothing(url, urls) ==
    url \in urls => (providers' = providers /\ last_name' = last_name)

\* C9 (as stated): the links of the records are pairwise distinct, and a
\* line whose first PDF link was already emitted leaves the records and
\* last_name unchanged.
C9_DuplicateLineChangesNothing ==
    /\ []LinksDistinct
    /\ [][(LineStep /\ HasUrl(line'))
            => DuplicateChangesNothing(FirstUrl(line'), RecordUrls(providers))]_vars

\* records are only appended, one at a time, by a line whose first link url
\* is not among the links urls of the records, and keep their link; a line
\* whose first link is among them changes nothing unless it is handled as
\* a continuation line
StepKeepsFirstRecord(ln, url, urls) ==
    /\ Len(providers') >= Len(providers)
    /\ \A i \in 1..Len(providers) : providers'[i].url = providers[i].url
    /\ Len(providers') > Len(providers) =>
          /\ Len(providers') = Len(providers) + 1
          /\ url # <<>>
          /\ providers'[Len(providers')].url = url
          /\ url \notin urls
    /\ (url \in urls /\ ~IsContinuation(ln, providers)) =>
          /\ providers' = providers
          /\ seen_urls' = seen_urls
          /\ last_name' = last_name

\* C9 (amended): the links of the records are pairwise distinct and are
\* the links seen; records are only appended, by a line whose first link
\* was not seen before, and keep their link; and a line whose first PDF
\* link was already emitted, unless it is handled as a continuation line
\* (it starts with "(" and a record exists), leaves the records, the seen
\* links and last_name unchanged.
C9_DuplicateNonContinuationChangesNothing ==
    /\ [](LinksDistinct /\ seen_urls = RecordUrls(providers))
    /\ [][LineStep =>
            StepKeepsFirstRecord(line', FirstUrl(line'), RecordUrls(providers))]_vars
\* a line repeating an emitted link has been skipped
C9_Witness ==
    /\ branch = "duplicate"
    /\ FirstUrl(line) \in RecordUrls(providers)
    /\ Len(providers) < nLines

\* C10: a line starting with "(" after a record was emitted is appended
\* with one separating space to the name of the last record, emits no
\* record and leaves the seen links and last_name unchanged; before any
\* record it is not treated as a continuation.
C10_ContinuationAppends ==
    [][(LineStep /\ StartsWithParen(line')) =>
         IF providers # <<>>
         THEN /\ providers' = [providers EXCEPT ![Len(providers)].name =
                                   providers[Len(providers)].name \o <<" ">> \o line']
              /\ seen_urls' = seen_urls
              /\ last_name' = last_name
         ELSE branch' # "continuation"]_vars


\* the line is one of the headings, or is the town name, whatever the case
IsHeadingOrTown(ln, town) == Upper(ln) \in HEADINGS \/ Upper(ln) = Upper(town)
\* line[: match.start()].strip() of a line with a link
NamePart(ln) == Strip(Slice(ln, 1, UrlSearch(ln)[1] - 1))
LastRecord(provs) == provs[Len(provs)]

\* a heading or town-name line without a link changes neither the records
\* nor last_name
HeadingLineIgnored(ln, town) ==
    (~HasUrl(ln) /\ IsHeadingOrTown(ln, town)) =>
        (providers' = providers /\ last_name' = last_name)

\* C11: a line with no link that is one of the headings, or the town name
\* in any case, emits no record and does not become last_name; last_name is
\* never such a line, and no record is named by such a line (a record whose
\* name reads as one has it from its link, not from a line).
C11_HeadingLineNeverNamed ==
    /\ [](last_name # NoStr => ~IsHeadingOrTown(last_name, town_name))
    /\ [](\A i \in 1..Len(providers) :
            IsHeadingOrTown(providers[i].name, town_name)
                => providers[i].name = infer_name_from_url(providers[i].url))
    /\ [][LineStep => HeadingLineIgnored(line', town_name)]_vars
\* a heading or town-name line has been read after a name was tracked and
\* a record emitted, and was ignored
C11_Witness ==
    /\ branch = "ignored"
    /\ ~HasUrl(line)
    /\ IsHeadingOrTown(line, town_name)
    /\ last_name # NoStr
    /\ providers # <<>>

\* the name of the record a link line emits and last_name after it, by
\* the order of priority
NameByPriority(url, name_part, last, town) ==
    IF is_candidate_name(name_part, town)
    THEN /\ LastRecord(providers').name = name_part
         /\ last_name' = name_part
    ELSE IF last # NoStr /\ is_candidate_name(last, town)
    THEN /\ LastRecord(providers').name = last
         /\ last_name' = last
    ELSE /\ LastRecord(providers').name = infer_name_from_url(url)
         /\ last_name' = last

\* what C12 says of a line ln whose first link is url, with the text
\* name_part before it
EmitsByPriority(ln, url, name_part) ==
    (url \notin seen_urls /\ ~IsContinuation(ln, providers)) =>
        /\ Len(providers') = Len(providers) + 1
        /\ LastRecord(providers').url = url
        /\ NameByPriority(url, name_part, last_name, town_name)
\* m is the span of the first link of ln, <<0, 0>> if it has none
LinkLineEmitsByPriority(ln, m) ==
    m # <<0, 0>> =>
        EmitsByPriority(ln, Slice(ln, m[1], m[2]), Strip(Slice(ln, 1, m[1] - 1)))

EndsInDotPdf(s) == Len(s) >= 4 /\ HasAtNoCase(s, DotPdf, Len(s) - 3)
WithoutDotPdf(s) == IF EndsInDotPdf(s) THEN Slice(s, 1, Len(s) - 4) ELSE s
OrProvider(s) == IF s = <<>> THEN Provider ELSE s
InferredAsSpecified(url) ==
    OrProvider(Strip(Title(Replace(Replace(Replace(WithoutDotPdf(LastSegment(url)),
        <<"_","p","p">>, <<>>), <<"-">>, <<" ">>), <<"_">>, <<" ">>))))

\* C13: a name inferred from a link is the final path segment with the
\* trailing ".pdf" stripped, "_pp" removed, hyphens and underscores
\* replaced by spaces, title-cased and trimmed, or "provider" if that is
\* empty: it never ends in ".pdf" and is never empty.  (A record emitted
\* while last_name is still None has an inferred name.)
C13_InferredNameAsSpecified ==
    (branch = "emitted" /\ last_name = NoStr) =>
        /\ LastRecord(providers).name = InferredAsSpecified(LastRecord(providers).url)
        /\ LastRecord(providers).name # <<>>
        /\ ~EndsInDotPdf(LastRecord(providers).name)


(***************************************************************************)
(* Properties of the scorer                                                *)
(***************************************************************************)
\* a step of the loop of the matcher: one more provider has been scored
ScanStep == mIdx' = mIdx + 1
\* best_score after a step that scored a provider with score
BestScoreTakes(score) == FracEq(best_score', FracMax(best_score, score))
\* the score with base ratio base and the boost of the code
Boosted(base, norm_dds, norm_propublica) ==
    IF Contained(norm_dds, norm_propublica)
    THEN FracMax(base, Boost(ContainmentScore(norm_dds, norm_propublica)))
    ELSE base
\* the score whose base ratio is taken over the names as given
RawBaseScore(target, name) ==
    Boosted(Ratio(target, name), normalize_org_name(name), normalize_org_name(target))
\* the score whose base ratio is taken over the normalized names
NormalizedBaseScore(target, name) ==
    Boosted(Ratio(normalize_org_name(target), normalize_org_name(name)),
            normalize_org_name(name), normalize_org_name(target))

ShorterOverLonger(n1, n2) ==
    IF Len(n1) <= Len(n2) THEN <<Len(n1), Max1(Len(n2))>> ELSE <<Len(n2), Max1(Len(n1))>>
\* the score with the containment score taken shorter over longer
SymmetricScore(base, norm_dds, norm_propublica) ==
    IF Contained(norm_dds, norm_propublica)
    THEN FracMax(base, Boost(ShorterOverLonger(norm_dds, norm_propublica)))
    ELSE base

\* C15: when one normalized name is a substring of the other, in either
\* direction, the containment score is len(shorter) / max(len(longer), 1),
\* whichever is the target, and the score is
\* max(base score, 0.75 + 0.2 * containment score).
C15_ContainmentScoreSymmetric ==
    [][ScanStep =>
         BestScoreTakes(SymmetricScore(
             calculate_similarity(propublica_name, dds_providers[mIdx'].name),
             normalize_org_name(dds_providers[mIdx'].name),
             normalize_org_name(propublica_name)))]_vars

\* C16: the normalized name holds only lower-case letters, digits and
\* single spaces, with no space at either end (the underscore is removed).
IsLowerAlnumOrSpace(c) == c \in LowerLetters \/ IsDigit(c) \/ c = " "
C16_OnlyLowerAlnumAndSingleSpaces ==
    nPc \in {"once", "twice"} =>
        /\ \A i \in 1..Len(nOnce) : IsLowerAlnumOrSpace(nOnce[i])
        /\ \A i \in 1..(Len(nOnce) - 1) : ~(nOnce[i] = " " /\ nOnce[i + 1] = " ")
        /\ nOnce # <<>> => (nOnce[1] # " " /\ nOnce[Len(nOnce)] # " ")

\* C17: similarity(a, a) is exactly 1.0 for every non-empty a, and the
\* score of a provider whose name is the target is exactly 1.0: after such
\* a provider is scored first it is held with best_score 1.0.
C17_IdenticalNamesScoreOne ==
    /\ \A i \in 1..mIdx :
          (propublica_name # <<>> /\ dds_providers[i].name = propublica_name) =>
              /\ FracEq(calculate_similarity(propublica_name, dds_providers[i].name), One)
              /\ FracEq(ScoreOf(i), One)
    /\ (/\ mIdx >= 1
        /\ propublica_name # <<>>
        /\ dds_providers[1].name = propublica_name)
            => (FracLeq(One, best_score) /\ (mIdx = 1 => best_match = 1 /\ FracEq(best_score, One)))
\* a provider named as the non-empty target, whose name does not
\* normalize to the empty string, has been scored first and is held
C17_Witness ==
    /\ mIdx = 1
    /\ propublica_name # <<>>
    /\ dds_providers[1].name = propublica_name
    /\ normalize_org_name(propublica_name) # <<>>
    /\ best_match = 1
    /\ FracEq(best_score, One)


(***************************************************************************)
(* Properties of the cache and of the rate limit                           *)
(***************************************************************************)
\* the frames of thread t
Frames(t) == {stack[t][i] : i \in DOMAIN stack[t]}

\* C18: when two or more callers call _cached concurrently with the same
\* key while no unexpired entry exists, the loader is invoked at most once
\* and all callers receive the same value: of two calls in progress for
\* the same key at most one has invoked its loader, and two that are about
\* to return hold the same value.
C18_LoaderAtMostOncePerKey ==
    \A t, u \in DOMAIN stack : \A f \in Frames(t), g \in Frames(u) :
        (t # u /\ f.key = g.key) =>
            /\ f.loaderCalls + g.loaderCalls <= 1
            /\ (f.pc = "set" /\ g.pc = "set") => f.value = g.value

\* C19: any two requests are issued at least RATE_LIMIT_DELAY apart, for
\* every interleaving of the threads that share _last_request_time.
C19_RequestsSpaced ==
    \A i, j \in DOMAIN issued :
        i < j => issued[j] - issued[i] >= RATE_LIMIT_DELAY

\* the entry of the key of call f was unexpired when the call began
FreshAtCall(f) == f.entry0 # <<>> /\ f.entry0[1].expires_at > f.now
\* the call on top of the stack of t returns in this step
Returns(t) ==
    /\ stack[t] # <<>>
    /\ Len(stack'[t]) = Len(stack[t]) - 1
    /\ result'[t].kind = "value"
\* an exception leaves the calls of t in this step
Raises(t) ==
    /\ stack[t] # <<>>
    /\ stack'[t] = <<>>
    /\ result'[t].kind = "raised"
OtherKeysKept(key) ==
    \A k \in Keys \ {key} : EntryOf(CACHE', k) = EntryOf(CACHE, k)
\* what C20 says of a call f that returns v
ReturnsAsCached(f, v) ==
    IF FreshAtCall(f)
    THEN /\ f.loaderCalls = 0
         /\ v = f.entry0[1].value
         /\ CACHE' = CACHE
    ELSE /\ f.loaderCalls = 1
         /\ EntryOf(CACHE', f.key) =
                <<[value |-> v, expires_at |-> f.now + TTL(f.key)]>>
         /\ OtherKeysKept(f.key)
\* what C20 says of a call f whose loader raises
RaisesAsCached(f) ==
    /\ ~FreshAtCall(f)
    /\ f.loaderCalls = 1
    /\ EntryOf(CACHE', f.key) = f.entry0
    /\ CACHE' = CACHE

PassesAllowList(u) == ~UrlParseRaises(u) /\ is_allowed_pdf(u)
\* a request sent by scraper.fetch_pdf is for a URL that passes the check,
\* and a request for a URL from a caller or a PDF is sent by it
GuardedRequest(r) ==
    /\ r.via = "scraper.fetch_pdf" => PassesAllowList(r.url)
    /\ r.origin \in {"caller", "pdf"} => r.via = "scraper.fetch_pdf"

\* C21: scraper.fetch_pdf never sends a request for a URL that fails the
\* allow-list check: it raises ValueError before any fetch; and every
\* request for a PDF whose URL was supplied by the caller or extracted
\* from a PDF, in the three handlers, is sent by scraper.fetch_pdf.
C21_AllowListGuardsFetches ==
    /\ [](\A i \in DOMAIN http_log : GuardedRequest(http_log[i]))
    /\ [][(hPc = "check" /\ hPc' # "check" /\ ~PassesAllowList(fUrl))
            => (raised' = "ValueError" /\ http_log' = http_log)]_vars
\* fetch_all_docs has fetched a town roster, matched a record whose link
\* fails the check, and scraper.fetch_pdf has raised ValueError for it
C21_Witness ==
    /\ handler = "fetch_all_docs"
    /\ hPc = "done"
    /\ fOrigin = "pdf"
    /\ ~PassesAllowList(fUrl)
    /\ raised = "ValueError"
    /\ http_log # <<>>

(***************************************************************************)
(* Containment with an empty normalized name                               *)
(***************************************************************************)
DefaultThreshold == <<3, 5>>
\* exactly one of the two normalized names is the empty string
OneEmpty(n1, n2) == (n1 = <<>>) # (n2 = <<>>)

\* C22: at the default threshold 0.6 a candidate is not returned when
\* exactly one of the normalized names of target and candidate is the
\* empty string: the containment of the empty string does not lift its
\* score to the threshold.
C22_OneEmptyNameNotReturned ==
    (mPc = "returned" /\ threshold = DefaultThreshold) =>
        ~OneEmpty(normalize_org_name(propublica_name),
                  normalize_org_name(dds_providers[best_match].name))

=============================================================================
